---------------------------- MODULE Spec2Model ----------------------------
(***************************************************************************)
(* ElevAid: an Express API over one SQLite table of medical records.       *)
(* server.js mounts two routers under /api; routes/records.js holds the    *)
(* five record endpoints; config/auth.js and config/rateLimit.js define a  *)
(* token gate and four throttles; config/database.js creates the table.    *)
(*                                                                         *)
(* JavaScript strings are sequences of one-character strings, so that      *)
(* trim, toLowerCase, LIKE, parseInt and replace are computed character by *)
(* character.  A JavaScript value is a record [t, s, n]: t is its typeof   *)
(* class, s its text when it is a string, n its number when it is a number *)
(* or a boolean (false = 0, true = 1).                                     *)
(***************************************************************************)
EXTENDS Integers, Sequences, FiniteSets, TLC

VARIABLES
    records,     \* rows of table records, in rowid order
    seq,         \* sqlite_sequence.seq of table records (AUTOINCREMENT)
    now,         \* the store's CURRENT_TIMESTAMP
    req,         \* the request served last
    resp,        \* the response sent last
    reached,     \* the route handler the last request reached, "none" if no handler
    storeFault,  \* TRUE when the store threw while the last request was served
    created,     \* history: one entry per accepted create, its identity and body
    summaries,   \* history: the summaries served so far, each with its record's id
    served,      \* history: per route, the requests its handler served in this window
    clients,     \* per client, the request it has in flight and how far its handler is
    handles      \* store handles left open by requests that a later request replaced

vars == <<records, seq, now, req, resp, reached, storeFault, created, summaries, served,
          clients, handles>>

---------------------------------------------------------------------------
(* Bounds of the model *)

MaxRecords == 2
MaxClock == 1

---------------------------------------------------------------------------
(* Characters and JavaScript / SQLite string functions *)

UpperChars == <<"A","B","C","D","E","F","G","H","I","J","K","L","M",
                "N","O","P","Q","R","S","T","U","V","W","X","Y","Z">>
LowerChars == <<"a","b","c","d","e","f","g","h","i","j","k","l","m",
                "n","o","p","q","r","s","t","u","v","w","x","y","z">>
DigitChars == <<"0","1","2","3","4","5","6","7","8","9">>

\* String.prototype.trim strips WhiteSpace and LineTerminator characters
WhiteSpace == {" ", "\t", "\n"}

IndexIn(c, chars) == CHOOSE i \in 1..Len(chars) : chars[i] = c

\* the case mappings of the ASCII letters; every other character maps to itself
UpperToLower == [c \in {UpperChars[i] : i \in 1..26} |-> LowerChars[IndexIn(c, UpperChars)]]
LowerToUpper == [c \in {LowerChars[i] : i \in 1..26} |-> UpperChars[IndexIn(c, LowerChars)]]

toLowerChar(c) == IF c \in DOMAIN UpperToLower THEN UpperToLower[c] ELSE c
toUpperChar(c) == IF c \in DOMAIN LowerToUpper THEN LowerToUpper[c] ELSE c

\* String.prototype.toLowerCase
toLowerCase(s) == [i \in 1..Len(s) |-> toLowerChar(s[i])]
\* String.prototype.toUpperCase
toUpperCase(s) == [i \in 1..Len(s) |-> toUpperChar(s[i])]

\* SQLite LOWER(X): folds the ASCII upper-case letters
LOWER(s) == [i \in 1..Len(s) |-> toLowerChar(s[i])]

RECURSIVE trimStart(_)
trimStart(s) == IF s # << >> /\ Head(s) \in WhiteSpace THEN trimStart(Tail(s)) ELSE s
RECURSIVE trimEnd(_)
trimEnd(s) ==
    IF s # << >> /\ s[Len(s)] \in WhiteSpace THEN trimEnd(SubSeq(s, 1, Len(s) - 1)) ELSE s
\* String.prototype.trim
trim(s) == trimEnd(trimStart(s))

\* String.prototype.startsWith
startsWith(s, prefix) ==
    Len(s) >= Len(prefix) /\ SubSeq(s, 1, Len(prefix)) = prefix
\* String.prototype.substring(from)
substring(s, from) == SubSeq(s, from + 1, Len(s))

---------------------------------------------------------------------------
(* JavaScript values *)

Undefined == [t |-> "undefined", s |-> << >>, n |-> 0]
Null == [t |-> "null", s |-> << >>, n |-> 0]
Bool(b) == [t |-> "boolean", s |-> << >>, n |-> IF b THEN 1 ELSE 0]
Num(k) == [t |-> "number", s |-> << >>, n |-> k]
Str(chars) == [t |-> "string", s |-> chars, n |-> 0]
\* an array or an object of the parsed body or query (extended urlencoded, JSON)
Obj == [t |-> "object", s |-> << >>, n |-> 0]

\* ToBoolean, as `!v` applies it
Truthy(v) ==
    CASE v.t = "undefined" -> FALSE
      [] v.t = "null"      -> FALSE
      [] v.t = "boolean"   -> v.n = 1
      [] v.t = "number"    -> v.n # 0
      [] v.t = "string"    -> v.s # << >>
      [] OTHER             -> TRUE

\* v.trim is callable (a number, a boolean, an array or an object has no trim: TypeError)
HasTrim(v) == v.t = "string"

---------------------------------------------------------------------------
(* config/auth.js: the token gate *)

API_TOKEN == <<"e","l","e","v","a","i","d","-","s","e","c","u","r","e","-","t","o","k","e","n","-","2","0","2","5">>

BearerPrefix == <<"B","e","a","r","e","r"," ">>

Response(status, body) == [status |-> status, body |-> body]

\* a gate that takes the prefix in any case: "bearer " is stripped as well
TokenOfAnyCase(authHeader) ==
    IF startsWith(toLowerCase(authHeader.s), toLowerCase(BearerPrefix))
    THEN substring(authHeader.s, Len(BearerPrefix))
    ELSE authHeader.s

\* the credential validateToken compares with API_TOKEN
TokenOf(authHeader) ==
    IF startsWith(authHeader.s, BearerPrefix)
    THEN substring(authHeader.s, Len(BearerPrefix))
    ELSE authHeader.s

\* next(): the request goes on to the following middleware or handler
CallNext == Response(0, << >>)
Passed(result) == result.status = 0

\* a gate with one failure only: every request it does not pass is answered 401
validateTokenOneFailure(r) ==
    LET authHeader == r.authorization
    IN  IF ~Truthy(authHeader) \/ TokenOf(authHeader) # API_TOKEN
        THEN Response(401, [success |-> FALSE, error |-> "Authentication required",
                 message |-> "API token is required in Authorization header"])
        ELSE CallNext

\* validateToken(req, res, next): next(), or the response it sends itself
validateToken(r) ==
    LET authHeader == r.authorization
    IN  IF ~Truthy(authHeader)
        THEN Response(401, [success |-> FALSE, error |-> "Authentication required",
                 message |-> "API token is required in Authorization header"])
        ELSE IF TokenOf(authHeader) # API_TOKEN
        THEN Response(403, [success |-> FALSE, error |-> "Invalid token",
                 message |-> "Invalid or expired API token"])
        ELSE CallNext

---------------------------------------------------------------------------
(* server.js: the middleware mounted on /api ahead of the two routers *)

\* app.use('/api', apiRoutes); app.use('/api', recordsRoutes): no gate is mounted,
\* and no route of routes/index.js or routes/records.js names one
ApiGates == << >>

GateResult(gate, r) == IF gate = "validateToken" THEN validateToken(r) ELSE CallNext

\* Express runs the mounted middleware in order; the first that answers ends the chain
RECURSIVE RunGates(_, _)
RunGates(gates, r) ==
    IF gates = << >> THEN CallNext
    ELSE IF Passed(GateResult(Head(gates), r)) THEN RunGates(Tail(gates), r)
    ELSE GateResult(Head(gates), r)

---------------------------------------------------------------------------
(* config/database.js: table records *)

\* id INTEGER PRIMARY KEY AUTOINCREMENT: one more than the largest rowid ever used
NextRowid(sq) == sq + 1

\* an insert that reads the clock once for each of the two columns
InsertRowTwoClocks(sq, clock, diagnosis, status, note) ==
    [id |-> NextRowid(sq), diagnosis |-> diagnosis, status |-> status, note |-> note,
     created_at |-> clock, updated_at |-> clock + 1]

\* INSERT INTO records (diagnosis, status, note, created_at, updated_at)
\* VALUES (?, ?, ?, CURRENT_TIMESTAMP, CURRENT_TIMESTAMP)
InsertRow(sq, clock, diagnosis, status, note) ==
    [id |-> NextRowid(sq), diagnosis |-> diagnosis, status |-> status, note |-> note,
     created_at |-> clock, updated_at |-> clock]

---------------------------------------------------------------------------
(* routes/records.js: POST /upload-record *)

\* a server error sent in the shape of server.js's error middleware, without success
ServerErrorBare(message) ==
    Response(500, [error |-> "Server error", message |-> message])

ServerError(message) ==
    Response(500, [success |-> FALSE, error |-> "Server error", message |-> message])

ValidationError(message) ==
    Response(400, [success |-> FALSE, error |-> "Validation error", message |-> message])

\* !diagnosis || !status || !note
AnyFieldMissing(body) ==
    ~Truthy(body.diagnosis) \/ ~Truthy(body.status) \/ ~Truthy(body.note)

\* a validator that compares with '' without trimming first
RECURSIVE AnyFieldBlankUntrimmed(_)
AnyFieldBlankUntrimmed(values) ==
    IF values = << >> THEN "false"
    ELSE IF ~HasTrim(Head(values)) THEN "throw"
    ELSE IF Head(values).s = << >> THEN "true"
    ELSE AnyFieldBlankUntrimmed(Tail(values))

\* diagnosis.trim() === '' || status.trim() === '' || note.trim() === '', evaluated left
\* to right: "throw" when a value without trim is reached before a blank one
RECURSIVE AnyFieldBlank(_)
AnyFieldBlank(values) ==
    IF values = << >> THEN "false"
    ELSE IF ~HasTrim(Head(values)) THEN "throw"
    ELSE IF trim(Head(values).s) = << >> THEN "true"
    ELSE AnyFieldBlank(Tail(values))

\* the branch the handler takes for a body
UploadOutcome(body, fault) ==
    IF AnyFieldMissing(body) THEN "missingFields"
    ELSE LET blank == AnyFieldBlank(<<body.diagnosis, body.status, body.note>>)
         IN  IF blank = "throw" THEN "typeError"
             ELSE IF blank = "true" THEN "blankFields"
             ELSE IF fault THEN "storeFault"
             ELSE "valid"

\* an insert that stores the fields as submitted
UploadRowUntrimmed(sq, clock, body) ==
    InsertRow(sq, clock, body.diagnosis.s, body.status.s, body.note.s)

\* stmt.run(diagnosis.trim(), status.trim(), note.trim())
UploadRow(sq, clock, body) ==
    InsertRow(sq, clock, trim(body.diagnosis.s), trim(body.status.s), trim(body.note.s))

\* a response that reports result.changes where result.lastInsertRowid is meant
UploadResponseChanges(outcome, row) ==
    CASE outcome = "missingFields" ->
             ValidationError("All fields (diagnosis, status, note) are required")
      [] outcome = "blankFields" -> ValidationError("All fields must not be empty")
      [] outcome = "valid" ->
             Response(201, [success |-> TRUE, message |-> "Record created successfully",
                            recordId |-> 1])
      [] OTHER -> ServerError("Failed to create record")

\* the response of each branch; recordId is result.lastInsertRowid
UploadResponse(outcome, row) ==
    CASE outcome = "missingFields" ->
             ValidationError("All fields (diagnosis, status, note) are required")
      [] outcome = "blankFields" -> ValidationError("All fields must not be empty")
      [] outcome = "valid" ->
             Response(201, [success |-> TRUE, message |-> "Record created successfully",
                            recordId |-> row.id])
      [] OTHER -> ServerError("Failed to create record")

---------------------------------------------------------------------------
(* routes/records.js: GET /problems/active, GET /problems/resolved *)

ACTIVE == <<"a","c","t","i","v","e">>
RESOLVED == <<"r","e","s","o","l","v","e","d">>

\* a comparison that forgets LOWER
StatusMatchesExact(row, param) == row.status = param

\* a comparison by containment, as LIKE '%' || ? || '%' would make it
StatusMatchesContaining(row, param) ==
    \E from \in 0..(Len(row.status) - Len(param)) :
        LOWER(SubSeq(row.status, from + 1, from + Len(param))) = LOWER(param)

\* WHERE LOWER(status) = LOWER(?)
StatusMatches(row, param) == LOWER(row.status) = LOWER(param)

\* the same SELECT with ORDER BY id DESC
SelectByStatusDescending(rows, param) ==
    LET Keep(row) == StatusMatches(row, param)
        kept == SelectSeq(rows, Keep)
    IN  [i \in 1..Len(kept) |-> [id |-> kept[Len(kept) + 1 - i].id,
                                  diagnosis |-> kept[Len(kept) + 1 - i].diagnosis]]

\* SELECT id, diagnosis FROM records WHERE LOWER(status) = LOWER(?) ORDER BY id ASC
SelectByStatus(rows, param) ==
    LET Keep(row) == StatusMatches(row, param)
        kept == SelectSeq(rows, Keep)
    IN  [i \in 1..Len(kept) |-> [id |-> kept[i].id, diagnosis |-> kept[i].diagnosis]]

ProblemsResponse(rows, param, fault, failure) ==
    IF fault THEN ServerError(failure)
    ELSE LET problems == SelectByStatus(rows, param)
         IN  Response(200, [success |-> TRUE, problems |-> problems,
                            count |-> Len(problems)])

---------------------------------------------------------------------------
(* routes/records.js: GET /problem-summary/:id *)

DigitSet == {DigitChars[i] : i \in 1..Len(DigitChars)}
IsDigit(c) == c \in DigitSet
DigitValue(c) == IndexIn(c, DigitChars) - 1

\* the longest prefix of s made of decimal digits
RECURSIVE DigitPrefix(_)
DigitPrefix(s) ==
    IF s # << >> /\ IsDigit(Head(s)) THEN <<Head(s)>> \o DigitPrefix(Tail(s)) ELSE << >>

RECURSIVE DecimalValue(_)
DecimalValue(digits) ==
    IF digits = << >> THEN 0
    ELSE 10 * DecimalValue(SubSeq(digits, 1, Len(digits) - 1))
         + DigitValue(digits[Len(digits)])

HexChars == <<"0","1","2","3","4","5","6","7","8","9","a","b","c","d","e","f">>
HexSet == {HexChars[i] : i \in 1..Len(HexChars)}
IsHexDigit(c) == toLowerChar(c) \in HexSet

RECURSIVE HexPrefix(_)
HexPrefix(s) ==
    IF s # << >> /\ IsHexDigit(Head(s)) THEN <<Head(s)>> \o HexPrefix(Tail(s)) ELSE << >>

RECURSIVE HexValue(_)
HexValue(digits) ==
    IF digits = << >> THEN 0
    ELSE 16 * HexValue(SubSeq(digits, 1, Len(digits) - 1))
         + (IndexIn(toLowerChar(digits[Len(digits)]), HexChars) - 1)

\* parseInt(string), no radix given: leading white space is skipped, then an optional
\* sign; after a "0x" or "0X" prefix the hexadecimal digits are read, otherwise the
\* decimal digits, up to the first other character; NaN when there is no digit.
\* [nan |-> TRUE] is NaN.
parseInt(s) ==
    LET t == trimStart(s)
        signed == t # << >> /\ Head(t) \in {"+", "-"}
        u == IF signed THEN Tail(t) ELSE t
        hex == Len(u) >= 2 /\ u[1] = "0" /\ u[2] \in {"x", "X"}
        digits == IF hex THEN HexPrefix(SubSeq(u, 3, Len(u))) ELSE DigitPrefix(u)
        value == IF hex THEN HexValue(digits) ELSE DecimalValue(digits)
    IN  IF digits = << >> THEN [nan |-> TRUE, n |-> 0]
        ELSE [nan |-> FALSE, n |-> IF signed /\ Head(t) = "-" THEN 0 - value ELSE value]

\* a validation that lets through only ids made of decimal digits
IdInvalidUnlessDigits(id) ==
    id = << >> \/ \E k \in 1..Len(id) : ~IsDigit(id[k])

\* !id || isNaN(parseInt(id))
IdInvalid(id) == id = << >> \/ parseInt(id).nan

\* SELECT id, note FROM records WHERE id = ?  (stmt.get: the row, or undefined)
RowsById(rows, n) ==
    LET Keep(row) == row.id = n
    IN  SelectSeq(rows, Keep)

\* String.prototype.replace(/pattern/gi, replacement): every non-overlapping
\* occurrence, scanning from the left, letters compared without regard to case.
\* folded is toLowerCase(s), carried along so that it is computed once.
RECURSIVE replaceFolded(_, _, _, _)
replaceFolded(s, folded, pattern, replacement) ==
    IF Len(s) < Len(pattern) THEN s
    ELSE IF SubSeq(folded, 1, Len(pattern)) = pattern
    THEN replacement \o replaceFolded(SubSeq(s, Len(pattern) + 1, Len(s)),
                                      SubSeq(folded, Len(pattern) + 1, Len(s)),
                                      pattern, replacement)
    ELSE <<Head(s)>> \o replaceFolded(Tail(s), Tail(folded), pattern, replacement)

replaceAll(s, pattern, replacement) ==
    replaceFolded(s, toLowerCase(s), toLowerCase(pattern), replacement)

\* the phrase table of generateAISummary, in the order the replace calls are chained
Substitutions == <<
    <<<<"p","a","t","i","e","n","t"," ","s","h","o","w","s"," ","i","m","p","r","o","v","e","m","e","n","t">>, <<"t","h","e"," ","p","a","t","i","e","n","t"," ","i","s"," ","g","e","t","t","i","n","g"," ","b","e","t","t","e","r">>>>,
    <<<<"b","l","o","o","d"," ","p","r","e","s","s","u","r","e">>, <<"b","l","o","o","d"," ","p","r","e","s","s","u","r","e">>>>,
    <<<<"r","e","a","d","i","n","g","s">>, <<"m","e","a","s","u","r","e","m","e","n","t","s">>>>,
    <<<<"s","y","m","p","t","o","m","s">>, <<"s","i","g","n","s"," ","o","f"," ","i","l","l","n","e","s","s">>>>,
    <<<<"d","i","a","g","n","o","s","i","s">>, <<"m","e","d","i","c","a","l"," ","c","o","n","d","i","t","i","o","n">>>>,
    <<<<"t","r","e","a","t","m","e","n","t">>, <<"c","a","r","e"," ","p","l","a","n">>>>,
    <<<<"m","e","d","i","c","a","t","i","o","n">>, <<"m","e","d","i","c","i","n","e">>>>,
    <<<<"p","r","e","s","c","r","i","b","e","d">>, <<"g","i","v","e","n">>>>,
    <<<<"a","d","m","i","n","i","s","t","e","r","e","d">>, <<"g","i","v","e","n">>>>,
    <<<<"m","o","n","i","t","o","r","i","n","g">>, <<"w","a","t","c","h","i","n","g">>>>,
    <<<<"f","o","l","l","o","w","-","u","p">>, <<"n","e","x","t"," ","v","i","s","i","t">>>>,
    <<<<"a","p","p","o","i","n","t","m","e","n","t">>, <<"v","i","s","i","t">>>>,
    <<<<"c","o","n","s","u","l","t","a","t","i","o","n">>, <<"d","o","c","t","o","r"," ","v","i","s","i","t">>>> >>

RECURSIVE ApplySubstitutions(_, _)
ApplySubstitutions(s, table) ==
    IF table = << >> THEN s
    ELSE ApplySubstitutions(replaceAll(s, Head(table)[1], Head(table)[2]), Tail(table))

\* summary.charAt(0).toUpperCase() + summary.slice(1)
CapitalizeFirst(s) == IF s = << >> THEN s ELSE <<toUpperChar(Head(s))>> \o Tail(s)

\* a transformer without note.toLowerCase(): letters outside the phrases keep their case
generateAISummaryKeepingCase(note) == CapitalizeFirst(ApplySubstitutions(note, Substitutions))

\* generateAISummary(note)
generateAISummary(note) == CapitalizeFirst(ApplySubstitutions(toLowerCase(note), Substitutions))

\* a handler without the `if (!record)` check: record.note of undefined throws
SummaryOutcomeUnchecked(rows, id, fault) ==
    IF IdInvalid(id) THEN "invalidId"
    ELSE IF fault THEN "storeFault"
    ELSE IF RowsById(rows, parseInt(id).n) = << >> THEN "typeError"
    ELSE "found"

\* the branch the handler takes
SummaryOutcome(rows, id, fault) ==
    IF IdInvalid(id) THEN "invalidId"
    ELSE IF fault THEN "storeFault"
    ELSE IF RowsById(rows, parseInt(id).n) = << >> THEN "notFound"
    ELSE "found"

\* a summarizer that keeps state between calls: it rewrites the note of the record
\* stored last, whichever record was asked for
SummaryResponseOfLatest(rows, id, fault) ==
    LET outcome == SummaryOutcome(rows, id, fault)
    IN  CASE outcome = "invalidId" -> ValidationError("Valid record ID is required")
          [] outcome = "notFound" ->
                 Response(404, [success |-> FALSE, error |-> "Not found",
                                message |-> <<"Record with ID ", id, " not found">>])
          [] outcome = "found" ->
                 LET record == RowsById(rows, parseInt(id).n)[1]
                 IN  Response(200, [success |-> TRUE,
                                    data |-> [original_note |-> record.note,
                                              ai_summary |->
                                                  generateAISummary(rows[Len(rows)].note)]])
          [] OTHER -> ServerError("Failed to generate problem summary")

SummaryResponse(rows, id, fault) ==
    LET outcome == SummaryOutcome(rows, id, fault)
    IN  CASE outcome = "invalidId" -> ValidationError("Valid record ID is required")
          [] outcome = "notFound" ->
                 Response(404, [success |-> FALSE, error |-> "Not found",
                                message |-> <<"Record with ID ", id, " not found">>])
          [] outcome = "found" ->
                 LET record == RowsById(rows, parseInt(id).n)[1]
                 IN  Response(200, [success |-> TRUE,
                         data |-> [original_note |-> record.note,
                                   ai_summary |-> generateAISummary(record.note)]])
          [] OTHER -> ServerError("Failed to generate problem summary")

---------------------------------------------------------------------------
(* routes/records.js: GET /problems/search *)

\* SQLite X LIKE Y with no ESCAPE: % matches any run of characters, _ any one
\* character, any other character itself, upper and lower case ASCII alike
RECURSIVE Like(_, _)
Like(text, pattern) ==
    IF pattern = << >> THEN text = << >>
    ELSE IF Head(pattern) = "%"
    THEN Like(text, Tail(pattern)) \/ (text # << >> /\ Like(Tail(text), pattern))
    ELSE /\ text # << >>
         /\ Head(pattern) = "_" \/ toLowerChar(Head(pattern)) = toLowerChar(Head(text))
         /\ Like(Tail(text), Tail(pattern))

\* `%${q.trim()}%`
SearchTerm(q) == <<"%">> \o trim(q.s) \o <<"%">>

\* a search that takes the term between the % markers literally
SearchMatchesLiteral(row, searchTerm) ==
    LET term == LOWER(SubSeq(searchTerm, 2, Len(searchTerm) - 1))
        Holds(text) == \E from \in 0..(Len(text) - Len(term)) :
                           SubSeq(LOWER(text), from + 1, from + Len(term)) = term
    IN  Holds(row.diagnosis) \/ Holds(row.note)

\* WHERE LOWER(diagnosis) LIKE LOWER(?) OR LOWER(note) LIKE LOWER(?)
SearchMatches(row, searchTerm) ==
    \/ Like(LOWER(row.diagnosis), LOWER(searchTerm))
    \/ Like(LOWER(row.note), LOWER(searchTerm))

\* SELECT id, diagnosis, status, note FROM records WHERE ... ORDER BY id ASC
SelectBySearch(rows, searchTerm) ==
    LET Keep(row) == SearchMatches(row, searchTerm)
        kept == SelectSeq(rows, Keep)
    IN  [i \in 1..Len(kept) |-> [id |-> kept[i].id, diagnosis |-> kept[i].diagnosis,
                                  status |-> kept[i].status, note |-> kept[i].note]]

\* !q || q.trim() === '': a q that is an array or an object (q=a&q=b, q[k]=v) is
\* truthy and has no trim
SearchOutcome(q, fault) ==
    IF ~Truthy(q) THEN "missingQuery"
    ELSE IF ~HasTrim(q) THEN "typeError"
    ELSE IF trim(q.s) = << >> THEN "missingQuery"
    ELSE IF fault THEN "storeFault"
    ELSE "searched"

SearchResponse(rows, q, fault) ==
    LET outcome == SearchOutcome(q, fault)
    IN  CASE outcome = "missingQuery" ->
                 ValidationError("Search query parameter \"q\" is required")
          [] outcome = "searched" ->
                 LET results == SelectBySearch(rows, SearchTerm(q))
                 IN  Response(200, [success |-> TRUE, results |-> results,
                                    count |-> Len(results), query |-> trim(q.s)])
          [] OTHER -> ServerError("Failed to search problems")

---------------------------------------------------------------------------
(* routes/index.js and server.js: the routes that touch no record *)

\* router.get('/') of routes/index.js, mounted on /api
ApiInfoResponse ==
    Response(200, [message |-> "ElevAid API v1.0.0", version |-> "1.0.0",
                   endpoints |-> [health |-> "/health", documentation |-> "/api-docs"]])

---------------------------------------------------------------------------
(* Requests *)

NoBody == [diagnosis |-> Undefined, status |-> Undefined, note |-> Undefined]
Body(d, s, n) == [diagnosis |-> d, status |-> s, note |-> n]

Request(op, authorization, body, id, q) ==
    [op |-> op, authorization |-> authorization, body |-> body, id |-> id, q |-> q]

NoRequest == Request("none", Undefined, NoBody, << >>, Undefined)
NoResponse == Response(0, << >>)

\* the Authorization header the README documents
Bearer == Str(BearerPrefix \o API_TOKEN)

\* Authorization headers: none, empty, the documented form, the bare secret, and
\* credentials that are not the secret
AuthHeaders == { Undefined, Str(<< >>), Bearer, Str(API_TOKEN),
                 Str(<<"b","e","a","r","e","r"," ">> \o API_TOKEN), Str(BearerPrefix \o BearerPrefix \o API_TOKEN),
                 Str(<<"B","e","a","r","e","r"," ","g","u","e","s","s">>) }

\* bodies the validator lets through
ValidBodies == {
    Body(Str(<<"F","l","u">>), Str(<<"a","c","t","i","v","e">>), Str(<<"B","P"," ","r","e","a","d","i","n","g","s">>)),
    Body(Str(<<" ","C","o","l","d"," ">>), Str(<<" ","A","c","t","i","v","e","\t">>), Str(<<"\t","f","l","u"," ","s","h","o","t"," ","p","r","e","s","c","r","i","b","e","d"," ">>)),
    Body(Str(<<"a","_","c">>), Str(<<"R","E","S","O","L","V","E","D">>), Str(<<"F","o","l","l","o","w","-","u","p"," ","5","0","%">>)),
    Body(Str(<<"a","b","c">>), Str(<<"i","n","a","c","t","i","v","e">>), Str(<<"o","k">>)) }

\* bodies with a field that is absent, falsy, blank, or no string
InvalidBodies == {
    NoBody,
    Body(Str(<<"F","l","u">>), Str(<<"a","c","t","i","v","e">>), Undefined),
    Body(Null, Str(<<"a","c","t","i","v","e">>), Str(<<"o","k">>)),
    Body(Str(<<"F","l","u">>), Str(<< >>), Str(<<"o","k">>)),
    Body(Str(<<"F","l","u">>), Num(0), Str(<<"o","k">>)),
    Body(Str(<<"F","l","u">>), Str(<<"a","c","t","i","v","e">>), Bool(FALSE)),
    Body(Str(<<" ","\t">>), Str(<<"a","c","t","i","v","e">>), Str(<<"o","k">>)),
    Body(Str(<<"F","l","u">>), Str(<<"a","c","t","i","v","e">>), Str(<<" "," ">>)),
    Body(Undefined, Str(<<" ">>), Str(<<"o","k">>)),
    Body(Num(7), Str(<<"a","c","t","i","v","e">>), Str(<<"o","k">>)),
    Body(Str(<<"F","l","u">>), Str(<<"a","c","t","i","v","e">>), Obj),
    Body(Bool(TRUE), Str(<<" ">>), Str(<<"o","k">>)),
    Body(Str(<<" ">>), Num(7), Str(<<"o","k">>)) }

Bodies == ValidBodies \cup InvalidBodies

\* every body whose three fields are drawn from one value of each kind the validator
\* tells apart: absent, null, false, 0, a number, empty, blank, padded text
FieldValues == { Undefined, Null, Bool(FALSE), Num(0), Num(7), Str(<< >>), Str(<<" ","\t">>),
                 Str(<<" ","x"," ">>) }
AllBodies == { Body(d, s, n) : d \in FieldValues, s \in FieldValues, n \in FieldValues }

\* path ids: Express matches :id against one non-empty path segment
Ids == { <<"1">>, <<"2">>, <<"3">>, <<"9">>, <<"2","a","b","c">>, <<"a","b","c">>, <<" ","1">>, <<"-","1">>, <<"0","x","2">>, <<"1",".","5">> }

\* req.query.q: absent, a string, or an array (q given twice)
Queries == { Undefined, Str(<< >>), Str(<<" "," ">>), Obj, Str(<<"f","l","u">>), Str(<<" ","F","L","U"," ">>),
             Str(<<"%">>), Str(<<"_">>), Str(<<"a","_","c">>), Str(<<"z","z","z">>) }

---------------------------------------------------------------------------
(* The state machine: one action per route *)

\* the routes of server.js that have a handler
Routes == { "upload-record", "problems/active", "problems/resolved",
            "problem-summary", "problems/search", "api", "health", "root" }

\* the history the specifications below keep or leave alone
history == <<summaries, served>>

\* the callers of the server, each with at most one request in flight
Clients == {"c1", "c2"}

\* a client that has sent nothing yet
IdleClient == [pc |-> "idle", request |-> NoRequest, steps |-> << >>, handle |-> FALSE,
               pending |-> NoResponse, resp |-> NoResponse]

\* the handlers' progress, followed only where a handler is taken step by step
process == <<clients, handles>>

\* what an action that serves a whole request at once passes over
others == <<history, process>>

Init ==
    /\ records = << >>
    /\ seq = 0
    /\ now = 0
    /\ req = NoRequest
    /\ resp = NoResponse
    /\ reached = "none"
    /\ storeFault = FALSE
    /\ created = << >>
    /\ summaries = { }
    /\ served = [route \in Routes |-> 0]
    /\ clients = [c \in Clients |-> IdleClient]
    /\ handles = 0

\* what every request does before its route handler: the /api middleware chain
Gate(r) == RunGates(ApiGates, r)

\* a request the chain answered itself
Rejected(r) ==
    /\ req' = r
    /\ resp' = Gate(r)
    /\ reached' = "none"
    /\ storeFault' = FALSE
    /\ UNCHANGED <<records, seq, now, created>>

\* a create that writes with INSERT OR REPLACE over the row stored last
UploadRecordReplacing(authorization, body, fault) ==
    LET r == Request("upload-record", authorization, body, << >>, Undefined)
        outcome == UploadOutcome(body, fault)
        row == UploadRow(seq, now, body)
    IN  IF ~Passed(Gate(r)) THEN Rejected(r)
        ELSE /\ outcome = "valid" => Len(records) < MaxRecords
             /\ req' = r
             /\ reached' = "upload-record"
             /\ storeFault' = (outcome = "storeFault")
             /\ resp' = UploadResponse(outcome, row)
             /\ IF outcome = "valid"
                THEN /\ records' = IF records = << >> THEN <<row>>
                                   ELSE [records EXCEPT ![Len(records)] = row]
                     /\ seq' = row.id
                     /\ created' = Append(created, [id |-> resp'.body.recordId,
                                                     body |-> body])
                ELSE UNCHANGED <<records, seq, created>>
             /\ UNCHANGED now

\* POST /api/upload-record
UploadRecord(authorization, body, fault) ==
    LET r == Request("upload-record", authorization, body, << >>, Undefined)
        outcome == UploadOutcome(body, fault)
        row == UploadRow(seq, now, body)
    IN  IF ~Passed(Gate(r)) THEN Rejected(r)
        ELSE /\ outcome = "valid" => Len(records) < MaxRecords
             /\ req' = r
             /\ reached' = "upload-record"
             /\ storeFault' = (outcome = "storeFault")
             /\ resp' = UploadResponse(outcome, row)
             /\ IF outcome = "valid"
                THEN /\ records' = Append(records, row)
                     /\ seq' = row.id
                     /\ created' = Append(created, [id |-> resp'.body.recordId,
                                                     body |-> body])
                ELSE UNCHANGED <<records, seq, created>>
             /\ UNCHANGED now

\* GET /api/problems/active
ProblemsActive(authorization, fault) ==
    LET r == Request("problems/active", authorization, NoBody, << >>, Undefined)
    IN  IF ~Passed(Gate(r)) THEN Rejected(r)
        ELSE /\ req' = r
             /\ reached' = "problems/active"
             /\ storeFault' = fault
             /\ resp' = ProblemsResponse(records, ACTIVE, fault,
                                         "Failed to fetch active problems")
             /\ UNCHANGED <<records, seq, now, created>>

\* GET /api/problems/resolved
ProblemsResolved(authorization, fault) ==
    LET r == Request("problems/resolved", authorization, NoBody, << >>, Undefined)
    IN  IF ~Passed(Gate(r)) THEN Rejected(r)
        ELSE /\ req' = r
             /\ reached' = "problems/resolved"
             /\ storeFault' = fault
             /\ resp' = ProblemsResponse(records, RESOLVED, fault,
                                         "Failed to fetch resolved problems")
             /\ UNCHANGED <<records, seq, now, created>>

\* GET /api/problem-summary/:id
ProblemSummary(authorization, id, fault) ==
    LET r == Request("problem-summary", authorization, NoBody, id, Undefined)
    IN  IF ~Passed(Gate(r)) THEN Rejected(r)
        ELSE /\ req' = r
             /\ reached' = "problem-summary"
             /\ storeFault' = (SummaryOutcome(records, id, fault) = "storeFault")
             /\ resp' = SummaryResponse(records, id, fault)
             /\ UNCHANGED <<records, seq, now, created>>

\* GET /api/problems/search
ProblemsSearch(authorization, q, fault) ==
    LET r == Request("problems/search", authorization, NoBody, << >>, q)
    IN  IF ~Passed(Gate(r)) THEN Rejected(r)
        ELSE /\ req' = r
             /\ reached' = "problems/search"
             /\ storeFault' = (SearchOutcome(q, fault) = "storeFault")
             /\ resp' = SearchResponse(records, q, fault)
             /\ UNCHANGED <<records, seq, now, created>>

\* GET /api
ApiInfo(authorization) ==
    LET r == Request("api", authorization, NoBody, << >>, Undefined)
    IN  IF ~Passed(Gate(r)) THEN Rejected(r)
        ELSE /\ req' = r
             /\ reached' = "api"
             /\ storeFault' = FALSE
             /\ resp' = ApiInfoResponse
             /\ UNCHANGED <<records, seq, now, created>>

\* the store's clock moves on between requests
Tick ==
    /\ now < MaxClock
    /\ now' = now + 1
    /\ UNCHANGED <<records, seq, req, resp, reached, storeFault, created>>

\* The record service behind the authorization gate: every request carries the
\* documented Authorization header, and the store's clock stands still
Next ==
    \/ \E b \in Bodies, f \in BOOLEAN : UploadRecord(Bearer, b, f) /\ UNCHANGED others
    \/ \E f \in BOOLEAN : ProblemsActive(Bearer, f) /\ UNCHANGED others
    \/ \E f \in BOOLEAN : ProblemsResolved(Bearer, f) /\ UNCHANGED others
    \/ \E i \in Ids, f \in BOOLEAN : ProblemSummary(Bearer, i, f) /\ UNCHANGED others
    \/ \E q \in Queries, f \in BOOLEAN : ProblemsSearch(Bearer, q, f) /\ UNCHANGED others
    \/ ApiInfo(Bearer) /\ UNCHANGED others

Spec == Init /\ [][Next]_vars

\* The server as any caller reaches it: every Authorization header, a few requests
\* of each route
GateBodies == { Body(Str(<<"F","l","u">>), Str(<<"a","c","t","i","v","e">>), Str(<<"B","P"," ","r","e","a","d","i","n","g","s">>)),
                Body(Str(<<"F","l","u">>), Str(<<" ">>), Str(<<"o","k">>)) }
GateIds == { <<"1">>, <<"a","b","c">> }
GateQueries == { Str(<<"f","l","u">>), Undefined }

NextGate ==
    \/ \E a \in AuthHeaders, b \in GateBodies : UploadRecord(a, b, FALSE) /\ UNCHANGED others
    \/ \E a \in AuthHeaders : ProblemsActive(a, FALSE) /\ UNCHANGED others
    \/ \E a \in AuthHeaders : ProblemsResolved(a, FALSE) /\ UNCHANGED others
    \/ \E a \in AuthHeaders, i \in GateIds : ProblemSummary(a, i, FALSE) /\ UNCHANGED others
    \/ \E a \in AuthHeaders, q \in GateQueries : ProblemsSearch(a, q, FALSE) /\ UNCHANGED others
    \/ \E a \in AuthHeaders : ApiInfo(a) /\ UNCHANGED others

SpecGate == Init /\ [][NextGate]_vars

\* The create validator on every body of AllBodies: the body is drawn first, then the
\* handler serves it
InitValidator ==
    /\ records = << >>
    /\ seq = 0
    /\ now = 0
    /\ req \in { Request("upload-record", Bearer, b, << >>, Undefined) : b \in AllBodies }
    /\ resp = NoResponse
    /\ reached = "none"
    /\ storeFault = FALSE
    /\ created = << >>
    /\ summaries = { }
    /\ served = [route \in Routes |-> 0]
    /\ clients = [c \in Clients |-> IdleClient]
    /\ handles = 0

NextValidator ==
    /\ resp = NoResponse
    /\ \E f \in BOOLEAN : UploadRecord(req.authorization, req.body, f) /\ UNCHANGED others

SpecValidator == InitValidator /\ [][NextValidator]_vars

\* The record service with the store's clock running
NextClock ==
    \/ \E b \in ValidBodies : UploadRecord(Bearer, b, FALSE) /\ UNCHANGED others
    \/ \E i \in GateIds : ProblemSummary(Bearer, i, FALSE) /\ UNCHANGED others
    \/ Tick /\ UNCHANGED others

SpecClock == Init /\ [][NextClock]_vars

---------------------------------------------------------------------------
(* The summary transformer on its own: notes that exercise the phrase table *)

SummaryNotes == {
    <<"P","a","t","i","e","n","t"," ","s","h","o","w","s"," ","i","m","p","r","o","v","e","m","e","n","t"," ","i","n"," ","b","l","o","o","d"," ","p","r","e","s","s","u","r","e"," ","r","e","a","d","i","n","g","s">>,
    <<"B","P"," ","r","e","a","d","i","n","g","s">>,
    <<"R","e","a","d","i","n","g","s",","," ","R","E","A","D","I","N","G","S"," ","a","n","d"," ","r","e","a","d","i","n","g","s">>,
    <<"F","o","l","l","o","w","-","u","p"," ","a","p","p","o","i","n","t","m","e","n","t"," ","a","f","t","e","r"," ","c","o","n","s","u","l","t","a","t","i","o","n">>,
    <<"2"," ","m","e","d","i","c","a","t","i","o","n","s"," ","p","r","e","s","c","r","i","b","e","d",";"," ","t","r","e","a","t","m","e","n","t"," ","a","d","m","i","n","i","s","t","e","r","e","d">>,
    <<"s","y","m","p","t","o","m","s"," ","u","n","d","e","r"," ","M","o","n","i","t","o","r","i","n","g",","," ","d","i","a","g","n","o","s","i","s"," ","o","p","e","n">>,
    <<"o","k">>,
    <<"X">> }

SummaryBodies == { Body(Str(<<"V","i","s","i","t">>), Str(<<"a","c","t","i","v","e">>), Str(note)) : note \in SummaryNotes }

SummaryIds == { <<"1">>, <<"2">> }

\* creates of the notes above and get-summary calls on them, the store healthy
NextSummary ==
    \/ \E b \in SummaryBodies : UploadRecord(Bearer, b, FALSE) /\ UNCHANGED others
    \/ \E i \in SummaryIds : ProblemSummary(Bearer, i, FALSE) /\ UNCHANGED others

SpecSummary == Init /\ [][NextSummary]_vars

---------------------------------------------------------------------------
(* The record service with the history of served summaries kept *)

\* every summary a get-summary call returns is recorded with the identity asked for
\* and the number of records the store held at that moment
LogSummary ==
    summaries' =
        IF reached' = "problem-summary" /\ resp'.status = 200
        THEN summaries \cup { [id |-> parseInt(req'.id).n, stored |-> Len(records'),
                               ai_summary |-> resp'.body.data.ai_summary] }
        ELSE summaries

Logged == LogSummary /\ UNCHANGED <<served, process>>

HistoryBodies == { Body(Str(<<"F","l","u">>), Str(<<"a","c","t","i","v","e">>), Str(<<"B","P"," ","r","e","a","d","i","n","g","s">>)),
                   Body(Str(<<"a","_","c">>), Str(<<"R","E","S","O","L","V","E","D">>), Str(<<"F","o","l","l","o","w","-","u","p"," ","5","0","%">>)) }

NextHistory ==
    \/ \E b \in HistoryBodies : UploadRecord(Bearer, b, FALSE) /\ Logged
    \/ \E f \in BOOLEAN : ProblemsActive(Bearer, f) /\ Logged
    \/ \E f \in BOOLEAN : ProblemsResolved(Bearer, f) /\ Logged
    \/ \E i \in SummaryIds, f \in BOOLEAN : ProblemSummary(Bearer, i, f) /\ Logged
    \/ \E q \in GateQueries, f \in BOOLEAN : ProblemsSearch(Bearer, q, f) /\ Logged

SpecHistory == Init /\ [][NextHistory]_vars

---------------------------------------------------------------------------
(* The authorization gate on its own: validateToken called with a request *)

\* requests of every route, under every Authorization header
TokenRequests ==
    UNION { { Request("upload-record", a, b, << >>, Undefined) : b \in GateBodies }
            \cup { Request("problem-summary", a, NoBody, i, Undefined) : i \in GateIds }
            \cup { Request("problems/search", a, NoBody, << >>, q) : q \in GateQueries }
            \cup { Request(op, a, NoBody, << >>, Undefined) :
                       op \in {"problems/active", "problems/resolved", "api"} }
            : a \in AuthHeaders }

InitToken ==
    /\ records = << >>
    /\ seq = 0
    /\ now = 0
    /\ req \in TokenRequests
    /\ resp = NoResponse
    /\ reached = "none"
    /\ storeFault = FALSE
    /\ created = << >>
    /\ summaries = { }
    /\ served = [route \in Routes |-> 0]
    /\ clients = [c \in Clients |-> IdleClient]
    /\ handles = 0

\* validateToken(req, res, next): it sends its own response, or calls next()
ValidateToken ==
    /\ reached = "none"
    /\ resp = NoResponse
    /\ resp' = validateToken(req)
    /\ reached' = IF Passed(validateToken(req)) THEN "next" ELSE "rejected"
    /\ UNCHANGED <<records, seq, now, req, storeFault, created>>

NextToken == ValidateToken /\ UNCHANGED others

SpecToken == InitToken /\ [][NextToken]_vars

---------------------------------------------------------------------------
(* rateLimit.js: the limiters, which no route of records.js or server.js mounts, and
   the server's requests counted within one window *)

\* max of generalLimiter, uploadLimiter, searchLimiter and aiSummaryLimiter
GeneralMax == 100
UploadMax == 10
SearchMax == 30
AiSummaryMax == 5

\* rateLimit({ max, message }) as a middleware: hits is the number of requests of
\* the caller it has let through in the current window
rateLimit(max, message, hits) ==
    IF hits >= max THEN Response(429, message) ELSE CallNext

generalLimiter(hits) ==
    rateLimit(GeneralMax,
              [success |-> FALSE, error |-> "Rate limit exceeded",
               message |-> "Too many requests from this IP, please try again later."],
              hits)

uploadLimiter(hits) ==
    rateLimit(UploadMax,
              [success |-> FALSE, error |-> "Upload rate limit exceeded",
               message |->
                   "Too many upload requests from this IP, please try again later."],
              hits)

searchLimiter(hits) ==
    rateLimit(SearchMax,
              [success |-> FALSE, error |-> "Search rate limit exceeded",
               message |->
                   "Too many search requests from this IP, please try again later."],
              hits)

aiSummaryLimiter(hits) ==
    rateLimit(AiSummaryMax,
              [success |-> FALSE, error |-> "AI summary rate limit exceeded",
               message |->
                   "Too many AI summary requests from this IP, please try again later."],
              hits)

\* the most requests of one route the model follows within a window
MaxServed == 6

\* one more request reached the handler of its route, all within one window of one
\* caller
Counted ==
    /\ reached' \in Routes => served[reached'] < MaxServed
    /\ served' = IF reached' \in Routes
                 THEN [served EXCEPT ![reached'] = @ + 1]
                 ELSE served
    /\ UNCHANGED <<summaries, process>>

ThrottleBody == Body(Str(<<"F","l","u">>), Str(<<" ">>), Str(<<"o","k">>))

\* one caller's requests within fifteen minutes, the store healthy
NextThrottle ==
    \/ UploadRecord(Bearer, ThrottleBody, FALSE) /\ Counted
    \/ \E i \in GateIds : ProblemSummary(Bearer, i, FALSE) /\ Counted
    \/ \E q \in GateQueries : ProblemsSearch(Bearer, q, FALSE) /\ Counted
    \/ ApiInfo(Bearer) /\ Counted

SpecThrottle == Init /\ [][NextThrottle]_vars

---------------------------------------------------------------------------
(* server.js: the routes and handlers outside the two routers *)

\* app.get('/health'): timestamp is the server's clock at the moment of the call
HealthResponse(clock) ==
    Response(200, [status |-> "OK", message |-> "Server is running", timestamp |-> clock])

\* app.get('/')
RootResponse ==
    Response(200, [message |-> "Welcome to ElevAid API", documentation |-> "/api-docs",
                   health |-> "/health"])

\* app.use('*', ...): the 404 handler
RouteNotFoundResponse(originalUrl) ==
    Response(404, [error |-> "Route not found",
                   message |-> <<"The route ", originalUrl, " does not exist">>])

\* app.use((err, req, res, next) => ...): the error-handling middleware
ErrorHandlerResponse(err) ==
    Response(500, [error |-> "Something went wrong!", message |-> err.message])

\* the errors express.json() passes to next(err): the SyntaxError of JSON.parse on
\* the request body
BodyParseErrors == { [message |-> "Unexpected end of JSON input"],
                     [message |-> "Unexpected token } in JSON at position 1"] }

\* urls no route matches
UnknownUrls == { <<"/","a","p","i","/","r","e","c","o","r","d","s">>, <<"/","r","e","c","o","r","d","s">> }

\* GET /health
Health(authorization) ==
    /\ req' = Request("health", authorization, NoBody, << >>, Undefined)
    /\ reached' = "health"
    /\ storeFault' = FALSE
    /\ resp' = HealthResponse(now)
    /\ UNCHANGED <<records, seq, now, created>>

\* GET /
Root(authorization) ==
    /\ req' = Request("root", authorization, NoBody, << >>, Undefined)
    /\ reached' = "root"
    /\ storeFault' = FALSE
    /\ resp' = RootResponse
    /\ UNCHANGED <<records, seq, now, created>>

\* a request for a url no route matches: under /api it passes the /api chain first
RouteNotFound(authorization, originalUrl) ==
    LET r == Request("unknown", authorization, NoBody, << >>, Undefined)
    IN  IF startsWith(originalUrl, <<"/","a","p","i","/">>) /\ ~Passed(Gate(r)) THEN Rejected(r)
        ELSE /\ req' = r
             /\ reached' = "404 handler"
             /\ storeFault' = FALSE
             /\ resp' = RouteNotFoundResponse(originalUrl)
             /\ UNCHANGED <<records, seq, now, created>>

\* POST /api/upload-record with a body that is no JSON: express.json() fails ahead
\* of every router, and the error-handling middleware answers
UploadUnparsable(authorization, err) ==
    /\ req' = Request("upload-record", authorization, NoBody, << >>, Undefined)
    /\ reached' = "error handler"
    /\ storeFault' = FALSE
    /\ resp' = ErrorHandlerResponse(err)
    /\ UNCHANGED <<records, seq, now, created>>

ServerBodies == ValidBodies \cup GateBodies

\* The whole server: the record routes with a few inputs each, and the rest
NextServer ==
    \/ \E b \in ServerBodies, f \in BOOLEAN : UploadRecord(Bearer, b, f) /\ UNCHANGED others
    \/ \E f \in BOOLEAN : ProblemsActive(Bearer, f) /\ UNCHANGED others
    \/ \E f \in BOOLEAN : ProblemsResolved(Bearer, f) /\ UNCHANGED others
    \/ \E i \in GateIds, f \in BOOLEAN : ProblemSummary(Bearer, i, f) /\ UNCHANGED others
    \/ \E q \in GateQueries, f \in BOOLEAN : ProblemsSearch(Bearer, q, f) /\ UNCHANGED others
    \/ ApiInfo(Bearer) /\ UNCHANGED others
    \/ Health(Undefined) /\ UNCHANGED others
    \/ Root(Undefined) /\ UNCHANGED others
    \/ \E u \in UnknownUrls : RouteNotFound(Bearer, u) /\ UNCHANGED others
    \/ \E e \in BodyParseErrors : UploadUnparsable(Bearer, e) /\ UNCHANGED others

SpecServer == Init /\ [][NextServer]_vars

---------------------------------------------------------------------------
(* The handlers of routes/records.js taken statement by statement, for several clients
   at once. Node runs the synchronous part of a handler without interruption; the
   steps are interleaved here as freely as server processes sharing the database
   file would interleave them, which includes every order Node can produce. *)

\* the most handles the model follows as open at once
MaxHandles == 3

\* the requests a client sends
StepRequests ==
    { Request("upload-record", Bearer, b, << >>, Undefined) : b \in GateBodies }
    \cup { Request("problem-summary", Bearer, NoBody, i, Undefined) : i \in GateIds }
    \cup { Request("problems/search", Bearer, NoBody, << >>, q) : q \in GateQueries }
    \cup { Request("problems/active", Bearer, NoBody, << >>, Undefined) }

\* routes whose handler begins with a validation of the request
ValidatingOps == {"upload-record", "problem-summary", "problems/search"}

\* the checks at the head of a handler: the response they send, or CallNext when the
\* handler goes on to the store
Validation(r) ==
    CASE r.op = "upload-record" ->
             LET outcome == UploadOutcome(r.body, FALSE)
             IN  IF outcome = "valid" THEN CallNext
                 ELSE UploadResponse(outcome, UploadRow(0, 0, r.body))
      [] r.op = "problem-summary" ->
             IF IdInvalid(r.id) THEN SummaryResponse(<< >>, r.id, FALSE) ELSE CallNext
      [] r.op = "problems/search" ->
             IF SearchOutcome(r.q, FALSE) = "searched" THEN CallNext
             ELSE SearchResponse(<< >>, r.q, FALSE)
      [] OTHER -> CallNext

\* the response of the catch block of a handler whose statement threw
FaultResponse(r) ==
    CASE r.op = "upload-record" -> UploadResponse("storeFault", UploadRow(0, 0, r.body))
      [] r.op = "problem-summary" -> SummaryResponse(<< >>, r.id, TRUE)
      [] r.op = "problems/search" -> SearchResponse(<< >>, r.q, TRUE)
      [] OTHER -> ProblemsResponse(<< >>, ACTIVE, TRUE, "Failed to fetch active problems")

\* the response the handler builds from what its statement returned
StatementResponse(r, rows, sq, clock) ==
    CASE r.op = "upload-record" -> UploadResponse("valid", UploadRow(sq, clock, r.body))
      [] r.op = "problem-summary" -> SummaryResponse(rows, r.id, FALSE)
      [] r.op = "problems/search" -> SearchResponse(rows, r.q, FALSE)
      [] OTHER -> ProblemsResponse(rows, ACTIVE, FALSE, "Failed to fetch active problems")

\* the handles open now: those the clients' last requests opened, and the older ones
OpenHandles == handles + Cardinality({c \in Clients : clients[c].handle})

\* a client sends a request; the handle its previous request left open stays open
Receive(c, r) ==
    /\ clients[c].pc \in {"idle", "answered"}
    /\ handles' = handles + (IF clients[c].handle THEN 1 ELSE 0)
    /\ clients' = [clients EXCEPT ![c] =
           [pc |-> IF ~Passed(Gate(r)) THEN "answered"
                   ELSE IF r.op \in ValidatingOps THEN "received" ELSE "validated",
            request |-> r, steps |-> << >>, handle |-> FALSE, pending |-> NoResponse,
            resp |-> Gate(r)]]
    /\ UNCHANGED <<records, seq, now, req, resp, reached, storeFault, created, history>>

\* the handler checks the request and returns its 400, or goes on
Validate(c) ==
    LET verdict == Validation(clients[c].request)
    IN  /\ clients[c].pc = "received"
        /\ clients' = [clients EXCEPT
               ![c].pc = IF Passed(verdict) THEN "validated" ELSE "answered",
               ![c].steps = Append(@, "validate"),
               ![c].resp = verdict]
        /\ UNCHANGED <<records, seq, now, req, resp, reached, storeFault, created,
                       history, handles>>

\* a handler that calls getDatabase() first and validates afterwards
OpenEarly(c) ==
    /\ \/ clients[c].pc = "validated"
       \/ clients[c].pc = "received" /\ ~clients[c].handle
    /\ OpenHandles < MaxHandles
    /\ clients' = [clients EXCEPT
           ![c].pc = IF clients[c].pc = "validated" THEN "opened" ELSE "received",
           ![c].steps = IF clients[c].handle THEN @ ELSE Append(@, "getDatabase"),
           ![c].handle = TRUE]
    /\ UNCHANGED <<records, seq, now, req, resp, reached, storeFault, created,
                   history, handles>>

\* const db = getDatabase(): a new handle on the database file
Open(c) ==
    /\ clients[c].pc = "validated"
    /\ OpenHandles < MaxHandles
    /\ clients' = [clients EXCEPT ![c].pc = "opened",
                                  ![c].steps = Append(@, "getDatabase"),
                                  ![c].handle = TRUE]
    /\ UNCHANGED <<records, seq, now, req, resp, reached, storeFault, created,
                   history, handles>>

\* db.prepare(...) and stmt.run / stmt.all / stmt.get: one statement, which the engine
\* runs atomically; a throw goes to the catch block, a missing record to the 404
Run(c, fault) ==
    LET r == clients[c].request
        built == StatementResponse(r, records, seq, now)
        inserts == r.op = "upload-record" /\ ~fault
    IN  /\ clients[c].pc = "opened"
        /\ inserts => Len(records) < MaxRecords
        /\ clients' = [clients EXCEPT
               ![c].steps = Append(@, "statement"),
               ![c].pc = IF fault \/ built.status = 404 THEN "answered"
                         ELSE IF r.op = "problem-summary" THEN "found"
                         ELSE "ran",
               ![c].pending = IF fault \/ built.status = 404 THEN NoResponse ELSE built,
               ![c].resp = IF fault THEN FaultResponse(r)
                           ELSE IF built.status = 404 THEN built
                           ELSE NoResponse]
        /\ IF inserts
           THEN /\ records' = Append(records, UploadRow(seq, now, r.body))
                /\ seq' = NextRowid(seq)
           ELSE UNCHANGED <<records, seq>>
        /\ UNCHANGED <<now, req, resp, reached, storeFault, created, history, handles>>

\* await generateAISummary(record.note): other requests are served meanwhile
Transform(c) ==
    /\ clients[c].pc = "found"
    /\ clients' = [clients EXCEPT ![c].pc = "ran",
                                  ![c].steps = Append(@, "generateAISummary")]
    /\ UNCHANGED <<records, seq, now, req, resp, reached, storeFault, created,
                   history, handles>>

\* a handler that asks the table for its newest id when it answers, instead of using
\* the result of its own statement
RespondFromTable(c) ==
    LET built == clients[c].pending
        sent == IF built.status = 201 THEN [built EXCEPT !.body.recordId = seq] ELSE built
    IN  /\ clients[c].pc = "ran"
        /\ clients' = [clients EXCEPT ![c].pc = "answered",
                                      ![c].steps = Append(@, "respond"),
                                      ![c].pending = NoResponse,
                                      ![c].resp = sent]
        /\ created' = IF sent.status = 201
                      THEN Append(created, [id |-> sent.body.recordId,
                                            body |-> clients[c].request.body])
                      ELSE created
        /\ UNCHANGED <<records, seq, now, req, resp, reached, storeFault, history,
                       handles>>

\* res.json(...): the handler returns; it never calls db.close()
Respond(c) ==
    LET sent == clients[c].pending
    IN  /\ clients[c].pc = "ran"
        /\ clients' = [clients EXCEPT ![c].pc = "answered",
                                      ![c].steps = Append(@, "respond"),
                                      ![c].pending = NoResponse,
                                      ![c].resp = sent]
        /\ created' = IF sent.status = 201
                      THEN Append(created, [id |-> sent.body.recordId,
                                            body |-> clients[c].request.body])
                      ELSE created
        /\ UNCHANGED <<records, seq, now, req, resp, reached, storeFault, history,
                       handles>>

\* the garbage collector finalizes a Database object no handler refers to any more,
\* which closes its handle; when it does so is not determined
Collect ==
    /\ \/ /\ handles > 0
          /\ handles' = handles - 1
          /\ UNCHANGED clients
       \/ /\ \E c \in Clients :
                 /\ clients[c].pc = "answered"
                 /\ clients[c].handle
                 /\ clients' = [clients EXCEPT ![c].handle = FALSE]
          /\ UNCHANGED handles
    /\ UNCHANGED <<records, seq, now, req, resp, reached, storeFault, created, history>>

NextSteps ==
    \/ \E c \in Clients, r \in StepRequests : Receive(c, r)
    \/ \E c \in Clients : Validate(c)
    \/ \E c \in Clients : Open(c)
    \/ \E c \in Clients, f \in BOOLEAN : Run(c, f)
    \/ \E c \in Clients : Transform(c)
    \/ \E c \in Clients : Respond(c)
    \/ Collect

SpecSteps == Init /\ [][NextSteps]_vars

---------------------------------------------------------------------------
(* Properties *)

RecordOps == {"upload-record", "problems/active", "problems/resolved",
              "problem-summary", "problems/search"}

\* the request carries the configured API token, bare or after "Bearer "
CarriesToken(r) ==
    /\ r.authorization.t = "string"
    /\ \/ r.authorization.s = API_TOKEN
       \/ r.authorization.s = BearerPrefix \o API_TOKEN

\* the ids of the stored records
StoredIds == {records[k].id : k \in 1..Len(records)}

\* the decimal numeral of a natural number
RECURSIVE Numeral(_)
Numeral(n) ==
    IF n < 10 THEN <<DigitChars[n + 1]>>
    ELSE Numeral(n \div 10) \o <<DigitChars[(n % 10) + 1]>>

\* C1: a request reaches the handler of a record endpoint or of GET /api only if it
\* carries the configured API token; without a valid token no record is inserted
\* or read.
C1_HandlerOnlyWithToken ==
    reached \in RecordOps \cup {"api"} => CarriesToken(req)

\* C2: each successful create returns an identity strictly greater than every
\* identity returned by an earlier successful create, and one that no record stored
\* before the create has.
C2_IdentityFresh ==
    [][Len(created') > Len(created) =>
          /\ reached' = "upload-record"
          /\ resp'.status = 201
          /\ \A k \in 1..Len(created) : created[k].id < resp'.body.recordId
          /\ resp'.body.recordId \notin StoredIds
          /\ \A k \in 1..Len(records) : records[k].id < resp'.body.recordId]_vars

\* two creates have succeeded, the second one just now
C2_Witness ==
    /\ reached = "upload-record"
    /\ resp.status = 201
    /\ Len(created) >= 2

\* t is s without its leading and trailing white space, said without trim: s is
\* white space, then t, then white space, and t neither starts nor ends with any
IsTrimOf(t, s) ==
    \E lead \in 0..Len(s) :
        /\ lead + Len(t) <= Len(s)
        /\ SubSeq(s, lead + 1, lead + Len(t)) = t
        /\ \A k \in 1..lead : s[k] \in WhiteSpace
        /\ \A k \in (lead + Len(t) + 1)..Len(s) : s[k] \in WhiteSpace
        /\ t # << >> => (t[1] \notin WhiteSpace /\ t[Len(t)] \notin WhiteSpace)

\* the stored records with identity i
RecordsWithId(i) == {k \in 1..Len(records) : records[k].id = i}

\* the last exchange was a get-summary for identity i, answered by a healthy store
SummaryServedFor(i) ==
    /\ reached = "problem-summary"
    /\ req.id = Numeral(i)
    /\ ~storeFault

\* C3 (as claimed): after a successful create with payload (d, s, n) that returned
\* identity i, the record stored under i has the three fields trimmed, and a
\* get-by-id for i returns these same three trimmed fields.
C3_GetReturnsThreeFields ==
    \A c \in 1..Len(created) :
        /\ \E k \in RecordsWithId(created[c].id) :
               /\ IsTrimOf(records[k].diagnosis, created[c].body.diagnosis.s)
               /\ IsTrimOf(records[k].status, created[c].body.status.s)
               /\ IsTrimOf(records[k].note, created[c].body.note.s)
        /\ SummaryServedFor(created[c].id) =>
               /\ resp.status = 200
               /\ {"diagnosis", "status", "note"} \subseteq DOMAIN resp.body.data
               /\ IsTrimOf(resp.body.data.diagnosis, created[c].body.diagnosis.s)
               /\ IsTrimOf(resp.body.data.status, created[c].body.status.s)
               /\ IsTrimOf(resp.body.data.note, created[c].body.note.s)

\* C3 (amended): after a successful create with payload (d, s, n) that returned
\* identity i, exactly one record is stored under i, with diagnosis = trim(d),
\* status = trim(s) and note = trim(n); a get-summary for i answered by a healthy
\* store succeeds and returns, of the three fields, the note alone: original_note
\* = trim(n), beside ai_summary.
C3_CreateThenGetSummary ==
    \A c \in 1..Len(created) :
        /\ Cardinality(RecordsWithId(created[c].id)) = 1
        /\ \A k \in RecordsWithId(created[c].id) :
               /\ IsTrimOf(records[k].diagnosis, created[c].body.diagnosis.s)
               /\ IsTrimOf(records[k].status, created[c].body.status.s)
               /\ IsTrimOf(records[k].note, created[c].body.note.s)
        /\ SummaryServedFor(created[c].id) =>
               /\ resp.status = 200
               /\ DOMAIN resp.body.data = {"original_note", "ai_summary"}
               /\ IsTrimOf(resp.body.data.original_note, created[c].body.note.s)

\* a get-summary just returned the note of a record whose three fields were all
\* submitted with surrounding white space
C3_Witness ==
    \E c \in 1..Len(created) :
        /\ SummaryServedFor(created[c].id)
        /\ resp.status = 200
        /\ resp.body.data.original_note # created[c].body.note.s
        /\ \A k \in RecordsWithId(created[c].id) :
               /\ records[k].diagnosis # created[c].body.diagnosis.s
               /\ records[k].status # created[c].body.status.s

\* a field the claims call missing: absent, null, empty string, 0 or false
IsMissing(v) == v \in {Undefined, Null, Str(<< >>), Num(0), Bool(FALSE)}

\* a field that is a string of white space only, the empty string included
IsBlank(v) == v.t = "string" /\ \A k \in 1..Len(v.s) : v.s[k] \in WhiteSpace

FieldsOf(body) == {body.diagnosis, body.status, body.note}

\* C4: a create whose payload has a field missing, or blank after trimming, is
\* rejected with a validation error and leaves the stored records unchanged.
C4_InvalidCreateRejected ==
    [][(reached' = "upload-record"
        /\ \E v \in FieldsOf(req'.body) : IsMissing(v) \/ IsBlank(v))
       => /\ resp'.status = 400
          /\ resp'.body.error = "Validation error"
          /\ records' = records]_vars

\* the class the claims give a payload
ClaimedClass(body) ==
    IF \E v \in FieldsOf(body) : IsMissing(v) THEN "missingFields"
    ELSE IF \E v \in FieldsOf(body) : IsBlank(v) THEN "blankFields"
    ELSE "valid"

\* the class the create handler's response shows
AnsweredClass(response) ==
    IF response.status = 201 THEN "valid"
    ELSE IF response.status # 400 THEN "none"
    ELSE IF response.body.message = "All fields (diagnosis, status, note) are required"
    THEN "missingFields"
    ELSE IF response.body.message = "All fields must not be empty" THEN "blankFields"
    ELSE "none"

\* C5: the create validator puts every payload in exactly one of missingFields,
\* blankFields, valid: missingFields when any value is absent, null, empty, 0 or
\* false; blankFields when all are present and one is blank after trimming; valid
\* otherwise.
C5_ValidatorClassifies ==
    (reached = "upload-record" /\ ~storeFault) =>
        AnsweredClass(resp) = ClaimedClass(req.body)

\* C6: create answers with the server-error outcome only when the store faults.
C6_ServerErrorOnlyOnStoreFault ==
    (reached = "upload-record" /\ ~storeFault) => resp.status \in {201, 400}

\* two characters are the same letter in either case, or the same character
SameIgnoringCase(x, y) ==
    \/ x = y
    \/ \E i \in 1..26 : {x, y} = {UpperChars[i], LowerChars[i]}

\* a equals b under case-insensitive comparison, said without LOWER
EqualsIgnoringCase(a, b) ==
    /\ Len(a) = Len(b)
    /\ \A k \in 1..Len(a) : SameIgnoringCase(a[k], b[k])

\* the ids a list or search response returns
ReturnedIds(items) == {items[k].id : k \in 1..Len(items)}

\* the last exchange was the list of the given route, answered by a healthy store
ListServed(route) == reached = route /\ ~storeFault

\* the response lists exactly the stored records whose status is word in any case
ListsExactly(word) ==
    /\ resp.status = 200
    /\ ReturnedIds(resp.body.problems) \subseteq StoredIds
    /\ \A k \in 1..Len(records) :
           records[k].id \in ReturnedIds(resp.body.problems)
               <=> EqualsIgnoringCase(records[k].status, word)

\* C7: in every store state list-active returns exactly the records whose stored
\* status equals "active" under case-insensitive comparison, and list-resolved
\* exactly those equal to "resolved": none omitted, no other included.
C7_ListsByStatusIgnoringCase ==
    /\ ListServed("problems/active") => ListsExactly(ACTIVE)
    /\ ListServed("problems/resolved") => ListsExactly(RESOLVED)

\* list-active just returned a record stored as "Active" and left out one stored
\* as "inactive"
C7_Witness ==
    /\ ListServed("problems/active")
    /\ \E k \in 1..Len(records) :
           /\ records[k].status = <<"A","c","t","i","v","e">>
           /\ records[k].id \in ReturnedIds(resp.body.problems)
    /\ \E k \in 1..Len(records) :
           /\ records[k].status = <<"i","n","a","c","t","i","v","e">>
           /\ records[k].id \notin ReturnedIds(resp.body.problems)

\* text contains x as a substring, letters compared without regard to case
ContainsIgnoringCase(text, x) ==
    \E from \in 0..(Len(text) - Len(x)) :
        EqualsIgnoringCase(SubSeq(text, from + 1, from + Len(x)), x)

\* C8: for every non-blank search term x, search returns every record whose
\* diagnosis or note contains x as a case-insensitive substring, and no record in
\* which neither field contains x.
C8_SearchReturnsExactlyContaining ==
    (reached = "problems/search" /\ resp.status = 200) =>
        \A k \in 1..Len(records) :
            records[k].id \in ReturnedIds(resp.body.results)
                <=> \/ ContainsIgnoringCase(records[k].diagnosis, resp.body.query)
                    \/ ContainsIgnoringCase(records[k].note, resp.body.query)

\* the path id is the numeral of an identity no stored record has
AsksForMissingRecord ==
    /\ reached = "problem-summary"
    /\ \E i \in 0..(seq + 9) : req.id = Numeral(i) /\ i \notin StoredIds

\* C9 (as claimed): get-summary for an identity that no stored record has always
\* yields 404 'Not found', never a success and never the server error.
C9_MissingAlwaysNotFound ==
    AsksForMissingRecord => (resp.status = 404 /\ resp.body.error = "Not found")

\* C9 (amended): get-summary for an identity that no stored record has never yields
\* a success; it yields 404 'Not found' whenever the store is healthy, and the
\* server error (500) only when the store faults.
C9_MissingNotFoundUnlessStoreFault ==
    AsksForMissingRecord =>
        IF storeFault
        THEN resp.status = 500 /\ resp.body.error = "Server error"
        ELSE resp.status = 404 /\ resp.body.error = "Not found"

\* a healthy store holding records was just asked for an identity none of them has
C9_Witness ==
    /\ AsksForMissingRecord
    /\ ~storeFault
    /\ records # << >>
    /\ resp.status = 404

\* the path id is an integer numeral: digits only, after an optional sign
IsIntegerNumeral(id) ==
    LET digits == IF id # << >> /\ id[1] \in {"+", "-"} THEN Tail(id) ELSE id
    IN  /\ digits # << >>
        /\ \A k \in 1..Len(digits) : digits[k] \in DigitSet

\* C10: get-summary is rejected with a validation error whenever the path id is not
\* an integer.
C10_NonIntegerIdRejected ==
    (reached = "problem-summary" /\ ~IsIntegerNumeral(req.id)) =>
        (resp.status = 400 /\ resp.body.error = "Validation error")

\* the q of the last request is missing, or blank once trimmed
QueryMissingOrBlank ==
    \/ IsMissing(req.q)
    \/ req.q.t = "string" /\ trim(req.q.s) = << >>

\* C11: search with q missing or blank after trimming is rejected with a validation
\* error; for every other q the outcome is a success, with the trimmed q echoed in
\* the response, unless the store faults.
C11_SearchRejectsOnlyBlankQuery ==
    reached = "problems/search" =>
        IF QueryMissingOrBlank
        THEN resp.status = 400 /\ resp.body.error = "Validation error"
        ELSE ~storeFault =>
                /\ resp.status = 200
                /\ resp.body.success = TRUE
                /\ req.q.t = "string"
                /\ resp.body.query = trim(req.q.s)

\* the claim's phrase list, in its listed order
ClaimedPhrases == <<
    <<<<"p","a","t","i","e","n","t"," ","s","h","o","w","s"," ","i","m","p","r","o","v","e","m","e","n","t">>, <<"t","h","e"," ","p","a","t","i","e","n","t"," ","i","s"," ","g","e","t","t","i","n","g"," ","b","e","t","t","e","r">>>>,
    <<<<"b","l","o","o","d"," ","p","r","e","s","s","u","r","e">>, <<"b","l","o","o","d"," ","p","r","e","s","s","u","r","e">>>>,
    <<<<"r","e","a","d","i","n","g","s">>, <<"m","e","a","s","u","r","e","m","e","n","t","s">>>>,
    <<<<"s","y","m","p","t","o","m","s">>, <<"s","i","g","n","s"," ","o","f"," ","i","l","l","n","e","s","s">>>>,
    <<<<"d","i","a","g","n","o","s","i","s">>, <<"m","e","d","i","c","a","l"," ","c","o","n","d","i","t","i","o","n">>>>,
    <<<<"t","r","e","a","t","m","e","n","t">>, <<"c","a","r","e"," ","p","l","a","n">>>>,
    <<<<"m","e","d","i","c","a","t","i","o","n">>, <<"m","e","d","i","c","i","n","e">>>>,
    <<<<"p","r","e","s","c","r","i","b","e","d">>, <<"g","i","v","e","n">>>>,
    <<<<"a","d","m","i","n","i","s","t","e","r","e","d">>, <<"g","i","v","e","n">>>>,
    <<<<"m","o","n","i","t","o","r","i","n","g">>, <<"w","a","t","c","h","i","n","g">>>>,
    <<<<"f","o","l","l","o","w","-","u","p">>, <<"n","e","x","t"," ","v","i","s","i","t">>>>,
    <<<<"a","p","p","o","i","n","t","m","e","n","t">>, <<"v","i","s","i","t">>>>,
    <<<<"c","o","n","s","u","l","t","a","t","i","o","n">>, <<"d","o","c","t","o","r"," ","v","i","s","i","t">>>> >>

\* text from position k on, every occurrence of phrase replaced, left to right
RECURSIVE SubstituteFrom(_, _, _, _)
SubstituteFrom(text, phrase, by, k) ==
    IF k > Len(text) THEN << >>
    ELSE IF /\ k + Len(phrase) - 1 <= Len(text)
            /\ \A j \in 1..Len(phrase) : text[k + j - 1] = phrase[j]
    THEN by \o SubstituteFrom(text, phrase, by, k + Len(phrase))
    ELSE <<text[k]>> \o SubstituteFrom(text, phrase, by, k + 1)

\* the first n substitutions of the claim's list applied one after another
RECURSIVE SubstitutedUpTo(_, _)
SubstitutedUpTo(text, n) ==
    IF n = 0 THEN text
    ELSE SubstituteFrom(SubstitutedUpTo(text, n - 1),
                        ClaimedPhrases[n][1], ClaimedPhrases[n][2], 1)

\* lower-case the whole note, substitute, then upper-case the first character only
ClaimedSummary(note) ==
    LET lowered == [k \in 1..Len(note) |->
                        IF note[k] \in DOMAIN UpperToLower THEN UpperToLower[note[k]]
                        ELSE note[k]]
        text == SubstitutedUpTo(lowered, Len(ClaimedPhrases))
    IN  [k \in 1..Len(text) |->
            IF k = 1 /\ text[k] \in DOMAIN LowerToUpper THEN LowerToUpper[text[k]]
            ELSE text[k]]

GoldenNote == <<"P","a","t","i","e","n","t"," ","s","h","o","w","s"," ","i","m","p","r","o","v","e","m","e","n","t"," ","i","n"," ","b","l","o","o","d"," ","p","r","e","s","s","u","r","e"," ","r","e","a","d","i","n","g","s">>
GoldenSummary == <<"T","h","e"," ","p","a","t","i","e","n","t"," ","i","s"," ","g","e","t","t","i","n","g"," ","b","e","t","t","e","r"," ","i","n"," ","b","l","o","o","d"," ","p","r","e","s","s","u","r","e"," ","m","e","a","s","u","r","e","m","e","n","t","s">>

\* a get-summary call was just answered with a summary
SummaryServed == reached = "problem-summary" /\ resp.status = 200

C13_SameRecordSameSummary ==
    \A x \in summaries, y \in summaries : x.id = y.id => x.ai_summary = y.ai_summary

\* one record was summarized twice, a create in between, and another record as well
C13_Witness ==
    /\ \E x \in summaries, y \in summaries : x.id = y.id /\ x.stored < y.stored
    /\ \E x \in summaries, y \in summaries : x.id # y.id

\* the gate has dealt with the request
GateActed == reached \in {"next", "rejected"}

\* no credential came with the request: the header is absent, or its value is empty
NoCredential == req.authorization \in {Undefined, Str(<< >>)}

\* the credential of the request: the header value, after "Bearer " when it starts so
Credential ==
    LET header == req.authorization.s
        prefix == <<"B", "e", "a", "r", "e", "r", " ">>
    IN  IF Len(header) >= 7 /\ SubSeq(header, 1, 7) = prefix
        THEN SubSeq(header, 8, Len(header))
        ELSE header

\* C14: the authorization gate distinguishes its two failures and passes nothing
\* else: a request with no Authorization header is answered 401 'Authentication
\* required', a request whose credential differs from the configured secret is
\* answered 403 'Invalid token', and the next handler runs only when the credential
\* equals the secret.
C14_GateDistinguishesFailures ==
    GateActed =>
        /\ NoCredential =>
               (reached = "rejected" /\ resp.status = 401
                    /\ resp.body.error = "Authentication required")
        /\ (~NoCredential /\ Credential # API_TOKEN) =>
               (reached = "rejected" /\ resp.status = 403
                    /\ resp.body.error = "Invalid token")
        /\ reached = "next" => (~NoCredential /\ Credential = API_TOKEN)
        /\ resp.status \in {0, 401, 403}
        /\ resp.status = 0 <=> reached = "next"

\* the gate answered 403 to a request that carried a wrong credential
C14_Witness ==
    /\ GateActed
    /\ ~NoCredential
    /\ Credential # API_TOKEN
    /\ resp.status = 403

\* the requests of all routes that reached a handler in the window
RECURSIVE SumServed(_)
SumServed(routes) ==
    IF routes = { } THEN 0
    ELSE LET route == CHOOSE x \in routes : TRUE
         IN  served[route] + SumServed(routes \ {route})

\* C15: requests are throttled per caller before they reach the core: within any
\* window at most 10 upload requests, 30 search requests, 5 AI-summary requests and
\* 100 general requests from one IP reach a handler; each excess request is rejected
\* with a structured rate-limit error.
C15_ThrottledPerCaller ==
    /\ served["upload-record"] <= UploadMax
    /\ served["problems/search"] <= SearchMax
    /\ served["problem-summary"] <= AiSummaryMax
    /\ SumServed(Routes) <= GeneralMax

\* the fixed texts the handlers send with a server error
GenericMessages == { "Failed to create record", "Failed to fetch active problems",
                     "Failed to fetch resolved problems",
                     "Failed to generate problem summary", "Failed to search problems" }

\* C16: whenever an operation fails with a server-side fault, the response is a
\* 5xx-equivalent whose message is a fixed generic text; the underlying cause (the
\* error's own message) is never part of any response sent to the caller.
C16_ServerFaultsAnsweredGenerically ==
    /\ storeFault => resp.status >= 500
    /\ resp.status >= 500 =>
           /\ resp.body.message \in GenericMessages
           /\ \A e \in BodyParseErrors : resp.body.message # e.message

\* a response was sent to the last request
ResponseSent == resp.status # 0

PayloadKeys == {"recordId", "problems", "results", "data"}

\* the body carries a boolean success indicator: true together with a payload on
\* success, false together with an error label and a message on failure
CarriesSuccessIndicator ==
    /\ "success" \in DOMAIN resp.body
    /\ resp.body.success \in BOOLEAN
    /\ resp.body.success <=> resp.status < 400
    /\ IF resp.body.success
       THEN DOMAIN resp.body \cap PayloadKeys # { }
       ELSE {"error", "message"} \subseteq DOMAIN resp.body

\* C17 (as claimed): every response the server sends carries a boolean success
\* indicator: true together with the payload on success, false together with an
\* error-kind label and a human-readable message on failure.
C17_EveryResponseCarriesSuccess ==
    ResponseSent => CarriesSuccessIndicator

\* C17 (amended): every response of the five record operations carries a boolean
\* success indicator, true together with the payload on success, false together with
\* an error-kind label and a message on failure; the responses of GET /api, GET
\* /health, GET /, the 404 handler and the error-handling middleware carry no success
\* indicator.
C17_RecordResponsesCarrySuccess ==
    ResponseSent =>
        IF reached \in RecordOps
        THEN CarriesSuccessIndicator
        ELSE "success" \notin DOMAIN resp.body

\* a record operation was just answered with a server error
C17_Witness ==
    /\ reached \in RecordOps
    /\ resp.status = 500
    /\ resp.body.success = FALSE

\* the last exchange was a list or a search
ListOrSearchServed == reached \in {"problems/active", "problems/resolved", "problems/search"}

\* the sequence a list or search response returns
ReturnedItems == IF reached = "problems/search" THEN resp.body.results ELSE resp.body.problems

\* the last request was one the operation accepts: a search needs a q that is a
\* string and not blank
RequestAcceptable ==
    reached = "problems/search" => (req.q.t = "string" /\ trim(req.q.s) # << >>)

\* no stored record is one the last request asked for
NoStoredRecordMatches ==
    \A k \in 1..Len(records) :
        CASE reached = "problems/active" ->
                 ~EqualsIgnoringCase(records[k].status, <<"a", "c", "t", "i", "v", "e">>)
          [] reached = "problems/resolved" ->
                 ~EqualsIgnoringCase(records[k].status,
                                     <<"r", "e", "s", "o", "l", "v", "e", "d">>)
          [] OTHER ->
                 /\ ~ContainsIgnoringCase(records[k].diagnosis, trim(req.q.s))
                 /\ ~ContainsIgnoringCase(records[k].note, trim(req.q.s))

\* C18: when no stored record matches, list-active, list-resolved and search each
\* answer with a success response carrying an empty sequence and count 0, never an
\* error; in every success response of these three operations count equals the
\* number of items in the returned sequence.
C18_EmptyResultIsSuccess ==
    ListOrSearchServed =>
        /\ resp.status = 200 => resp.body.count = Len(ReturnedItems)
        /\ (RequestAcceptable /\ ~storeFault /\ NoStoredRecordMatches) =>
               /\ resp.status = 200
               /\ resp.body.success = TRUE
               /\ ReturnedItems = << >>
               /\ resp.body.count = 0

\* text that is not empty and has no white space at either end: it is its own
\* trimmed form, and non-empty after trimming
TrimmedNonEmpty(text) ==
    /\ text # << >>
    /\ text[1] \notin WhiteSpace
    /\ text[Len(text)] \notin WhiteSpace

\* C19: in every reachable state, every record that was persisted through the create
\* operation has diagnosis, status and note all non-empty after trimming, and each
\* stored value equals its own trimmed form.
C19_StoredFieldsTrimmedNonEmpty ==
    \A k \in 1..Len(records) :
        /\ TrimmedNonEmpty(records[k].diagnosis)
        /\ TrimmedNonEmpty(records[k].status)
        /\ TrimmedNonEmpty(records[k].note)

\* a record is stored whose fields were submitted with white space around them
C19_Witness ==
    \E k \in 1..Len(records) :
        /\ created[k].id = records[k].id
        /\ created[k].body.diagnosis.s # records[k].diagnosis
        /\ created[k].body.status.s # records[k].status
        /\ created[k].body.note.s # records[k].note

\* the operations that only read the store
ReadOps == {"problems/active", "problems/resolved", "problem-summary", "problems/search"}

\* C20: the store is append-only: no operation ever changes or removes an existing
\* record, and list-active, list-resolved, get-summary and search, successful or
\* failing, leave the set of stored records exactly unchanged; only a successful
\* create adds exactly one record.
C20_StoreAppendOnly ==
    [][ /\ Len(records') >= Len(records)
        /\ \A k \in 1..Len(records) : records'[k] = records[k]
        /\ reached' \in ReadOps => records' = records
        /\ records' # records =>
               /\ reached' = "upload-record"
               /\ resp'.status = 201
               /\ Len(records') = Len(records) + 1
        /\ (reached' = "upload-record" /\ resp'.status = 201) =>
               Len(records') = Len(records) + 1 ]_vars

\* a failing search has just run against a store of two records, both as created
C20_Witness ==
    /\ reached = "problems/search"
    /\ resp.status = 500
    /\ Len(records) = 2
    /\ \A k \in 1..2 : records[k].id = created[k].id

\* C21: in every reachable state, every stored record has created_at equal to
\* updated_at.
C21_CreatedAtEqualsUpdatedAt ==
    \A k \in 1..Len(records) : records[k].created_at = records[k].updated_at

\* two records are stored that were created at different times
C21_Witness ==
    /\ Len(records) >= 2
    /\ records[1].created_at # records[2].created_at
    /\ records[2].updated_at = now

\* the place of the create that returned identity i among the accepted creates
CreationRank(i) == CHOOSE k \in 1..Len(created) : created[k].id = i

\* C22: the sequences returned by list-active, list-resolved and search are ordered
\* by strictly ascending id, which is the order in which the records were created;
\* no record appears twice in one result.
C22_ResultsInCreationOrder ==
    (ListOrSearchServed /\ resp.status = 200) =>
        \A i \in 1..Len(ReturnedItems), j \in 1..Len(ReturnedItems) :
            i < j =>
                /\ ReturnedItems[i].id < ReturnedItems[j].id
                /\ ReturnedItems[i].id \in {created[k].id : k \in 1..Len(created)}
                /\ ReturnedItems[j].id \in {created[k].id : k \in 1..Len(created)}
                /\ CreationRank(ReturnedItems[i].id) < CreationRank(ReturnedItems[j].id)

\* a list returned two records
C22_Witness ==
    /\ reached \in {"problems/active", "problems/resolved"}
    /\ resp.status = 200
    /\ Len(resp.body.problems) = 2

\* the clients whose create has inserted its record and not answered yet
Inserting == {c \in Clients : clients[c].pc = "ran" /\ clients[c].request.op = "upload-record"}

\* C23: when create requests from several clients are interleaved in any order, every
\* accepted create persists exactly one record and returns an identity distinct from
\* the identities returned to all other creates; no insert is lost or overwritten.
C23_InterleavedCreatesKeepIdentity ==
    /\ \A i \in 1..Len(created), j \in 1..Len(created) :
           i # j => created[i].id # created[j].id
    /\ \A i \in 1..Len(created) :
           /\ Cardinality({k \in 1..Len(records) : records[k].id = created[i].id}) = 1
           /\ \A k \in 1..Len(records) :
                  records[k].id = created[i].id =>
                      /\ IsTrimOf(records[k].diagnosis, created[i].body.diagnosis.s)
                      /\ IsTrimOf(records[k].status, created[i].body.status.s)
                      /\ IsTrimOf(records[k].note, created[i].body.note.s)
    /\ Len(records) = Len(created) + Cardinality(Inserting)
    /\ \A k \in 1..Len(records), l \in 1..Len(records) :
           k # l => records[k].id # records[l].id

\* two clients' creates overlapped: the one that inserted second was answered first
C23_Witness ==
    /\ Len(created) = 2
    /\ created[1].id = 2
    /\ created[2].id = 1
    /\ \A c \in Clients : clients[c].resp.status = 201

\* the steps client c's handler has taken for its request
StepsOf(c) == {clients[c].steps[k] : k \in 1..Len(clients[c].steps)}

\* step a comes before step b wherever client c's handler took b
Precedes(c, a, b) ==
    \A k \in 1..Len(clients[c].steps) :
        clients[c].steps[k] = b => \E j \in 1..(k - 1) : clients[c].steps[j] = a

\* C24: in create, get-summary and search, validation happens strictly before any
\* store access: a request that fails validation is answered without a store handle
\* being opened and without any statement being run; the transformer runs only after
\* a record was found.
C24_ValidationBeforeStore ==
    \A c \in Clients :
        /\ clients[c].request.op \in ValidatingOps =>
               /\ Precedes(c, "validate", "getDatabase")
               /\ Precedes(c, "validate", "statement")
        /\ Precedes(c, "getDatabase", "statement")
        /\ clients[c].resp.status = 400 =>
               /\ StepsOf(c) = {"validate"}
               /\ ~clients[c].handle
        /\ "generateAISummary" \in StepsOf(c) =>
               /\ Precedes(c, "statement", "generateAISummary")
               /\ clients[c].request.op = "problem-summary"
               /\ \E k \in 1..Len(records) :
                      records[k].id = parseInt(clients[c].request.id).n

\* one client was refused by the validation while the other's summary was transformed
C24_Witness ==
    \E c \in Clients, d \in Clients :
        /\ clients[c].resp.status = 400
        /\ clients[c].pc = "answered"
        /\ "generateAISummary" \in StepsOf(d)

\* C25: every store access opens its own handle and releases it on every exit path
\* (success, not-found and fault): after a request has been answered, no handle
\* opened for that request remains open, so the number of open handles does not grow
\* with the number of requests served.
C25_HandlesReleased ==
    /\ \A c \in Clients : clients[c].pc = "answered" => ~clients[c].handle
    /\ handles = 0
    /\ OpenHandles <= Cardinality(Clients)

\* text has a place where term fits, "_" in the term standing for any one character
\* and letters compared without regard to case
FitsSomewhere(text, term) ==
    \E from \in 0..(Len(text) - Len(term)) :
        \A k \in 1..Len(term) :
            term[k] = "_" \/ SameIgnoringCase(term[k], text[from + k])

\* text has the character ch in it
HasCharacter(text, ch) == \E k \in 1..Len(text) : text[k] = ch

\* C26: the search term is wrapped in wildcard markers without escaping, so a
\* wildcard character inside the caller's term acts as a wildcard: a term "%" returns
\* every stored record, and "_" matches any single character, including in records
\* that do not contain that character literally.
C26_WildcardsInTermAct ==
    (reached = "problems/search" /\ resp.status = 200) =>
        /\ resp.body.query = <<"%">> =>
               /\ resp.body.count = Len(records)
               /\ ReturnedIds(resp.body.results) = StoredIds
        /\ ~HasCharacter(resp.body.query, "%") =>
               \A k \in 1..Len(records) :
                   records[k].id \in ReturnedIds(resp.body.results)
                       <=> \/ FitsSomewhere(records[k].diagnosis, resp.body.query)
                           \/ FitsSomewhere(records[k].note, resp.body.query)

\* a term with "_" in it returned a record that has no "_" in diagnosis or note
C26_Witness ==
    /\ reached = "problems/search"
    /\ resp.status = 200
    /\ HasCharacter(resp.body.query, "_")
    /\ Len(resp.body.query) = 3
    /\ \E k \in 1..Len(resp.body.results) :
           /\ ~HasCharacter(resp.body.results[k].diagnosis, "_")
           /\ ~HasCharacter(resp.body.results[k].note, "_")

\* how many decimal digits the path id begins with
LeadingDigits(id) ==
    CHOOSE n \in 0..Len(id) :
        /\ \A k \in 1..n : id[k] \in DigitSet
        /\ n < Len(id) => id[n + 1] \notin DigitSet

\* the path id begins with an integer numeral that other characters follow
NumeralThenMore(id) == LeadingDigits(id) >= 1 /\ LeadingDigits(id) < Len(id)

\* the number the leading numeral of the path id denotes
PrefixNumber(id) ==
    CHOOSE n \in 0..99 : Numeral(n) = SubSeq(id, 1, LeadingDigits(id))

\* the path id begins with 0x or 0X and a hexadecimal digit
HexDigits == <<"0", "1", "2", "3", "4", "5", "6", "7", "8", "9",
               "a", "b", "c", "d", "e", "f">>
IsHex(ch) == \E v \in 1..16 : SameIgnoringCase(ch, HexDigits[v])
HexForm(id) == Len(id) >= 3 /\ id[1] = "0" /\ id[2] \in {"x", "X"} /\ IsHex(id[3])

\* the number the hexadecimal digits from position k of the path id on denote, after
\* those before them denoted acc
RECURSIVE HexNumberFrom(_, _, _)
HexNumberFrom(id, k, acc) ==
    IF k > Len(id) \/ ~IsHex(id[k]) THEN acc
    ELSE HexNumberFrom(id, k + 1,
             16 * acc + (CHOOSE v \in 1..16 : SameIgnoringCase(id[k], HexDigits[v])) - 1)

\* get-summary answered as for the record with identity n: a success with its note
\* when it is stored, not-found otherwise
AnsweredAsFor(n) ==
    IF n \in StoredIds
    THEN /\ resp.status = 200
         /\ \E k \in 1..Len(records) :
                records[k].id = n /\ resp.body.data.original_note = records[k].note
    ELSE resp.status = 404

\* a healthy store was asked for a summary under an id with a leading numeral
PrefixedIdServed ==
    reached = "problem-summary" /\ ~storeFault /\ NumeralThenMore(req.id)

ActiveResult ==
    ProblemsResponse(records, ACTIVE, FALSE, "Failed to fetch active problems").body.problems
ResolvedResult ==
    ProblemsResponse(records, RESOLVED, FALSE, "Failed to fetch resolved problems").body.problems

\* the status of the row is neither "active" nor "resolved" in any case
NeitherActiveNorResolved(row) ==
    /\ ~EqualsIgnoringCase(row.status, ACTIVE)
    /\ ~EqualsIgnoringCase(row.status, RESOLVED)

\* get-summary of the row's identity returns the row's note as a success
SummaryReturns(row) ==
    LET answer == SummaryResponse(records, Numeral(row.id), FALSE)
    IN  answer.status = 200 /\ answer.body.data.original_note = row.note

\* a search for the given text of the row returns the row
SearchReturns(row, text) ==
    LET answer == SearchResponse(records, Str(text), FALSE)
    IN  answer.status = 200 /\ row.id \in ReturnedIds(answer.body.results)

\* C28: in every reachable store state the results of list-active and list-resolved
\* are disjoint, and a record whose status is neither "active" nor "resolved" in any
\* case is in neither list, while get-summary returns it and so does a search for
\* its diagnosis or its note.
C28_ListsDisjointOthersReachable ==
    /\ ReturnedIds(ActiveResult) \cap ReturnedIds(ResolvedResult) = {}
    /\ \A k \in 1..Len(records) :
           NeitherActiveNorResolved(records[k]) =>
               /\ records[k].id \notin ReturnedIds(ActiveResult)
               /\ records[k].id \notin ReturnedIds(ResolvedResult)
               /\ SummaryReturns(records[k])
               /\ SearchReturns(records[k], records[k].diagnosis)
               /\ SearchReturns(records[k], records[k].note)

\* the store holds a record that one of the lists returns and one with another
\* status, whose summary was just returned
C28_Witness ==
    /\ ReturnedIds(ActiveResult) \cup ReturnedIds(ResolvedResult) # {}
    /\ \E k \in 1..Len(records) :
           /\ NeitherActiveNorResolved(records[k])
           /\ SummaryServedFor(records[k].id)
           /\ resp.status = 200
           /\ resp.body.data.original_note = records[k].note

\* the configured secret, written out
Secret == <<"e","l","e","v","a","i","d","-","s","e","c","u","r","e","-","t","o","k","e","n","-","2","0","2","5">>

\* the value of the Authorization header of the request (empty when there is none)
HeaderValue == req.authorization.s

\* the header is present with the given value
HeaderIs(value) == req.authorization = Str(value)

\* the header starts with "Bearer " written in another case
MiscasedPrefix ==
    /\ Len(HeaderValue) >= 7
    /\ EqualsIgnoringCase(SubSeq(HeaderValue, 1, 7), <<"B","e","a","r","e","r"," ">>)
    /\ SubSeq(HeaderValue, 1, 7) # <<"B","e","a","r","e","r"," ">>

\* C29: the authorization gate accepts the secret both as "Bearer <secret>" and as
\* the bare header value "<secret>"; the prefix is stripped only when it matches
\* exactly and only once, so "bearer <secret>" and "Bearer Bearer <secret>" are
\* answered 403, and an empty header value is answered 401.
C29_BearerPrefixStrippedExactlyOnce ==
    GateActed =>
        /\ (HeaderIs(<<"B","e","a","r","e","r"," ">> \o Secret) \/ HeaderIs(Secret)) =>
               (reached = "next" /\ resp.status = 0)
        /\ (HeaderIs(<<"b","e","a","r","e","r"," ">> \o Secret) \/ HeaderIs(<<"B","e","a","r","e","r"," ","B","e","a","r","e","r"," ">> \o Secret)
                \/ (req.authorization.t = "string" /\ MiscasedPrefix)) =>
               (reached = "rejected" /\ resp.status = 403)
        /\ HeaderIs(<< >>) => (reached = "rejected" /\ resp.status = 401)

\* the gate let through a request whose header value is the bare secret
C29_Witness ==
    /\ reached = "next"
    /\ HeaderIs(Secret)

===========================================================================
